---- MODULE Spec2Model ----
(***************************************************************************)
(* VLSM calculator (src/js/script.js).                                     *)
(*                                                                         *)
(* The page holds two form fields and three output elements.  Submitting   *)
(* the form runs calculateVLSM, which resets the output, parses the two    *)
(* fields, sizes every host requirement, sorts the requirements by block   *)
(* size, checks the capacity of the base network, walks an address cursor  *)
(* and renders one entry per requirement, or renders an error.             *)
(*                                                                         *)
(* JavaScript numbers reach 2^32 and more here (Math.pow(2, 32), sums of   *)
(* block sizes, the cursor), which is beyond the integers TLC computes     *)
(* with.  A JavaScript number n is therefore held as the pair <<hi, lo>>   *)
(* with n = hi * 2^16 + lo and 0 <= lo < 2^16; hi carries the sign.  The   *)
(* 32-bit operators (<<, >>>, &, |, ~) convert with ToInt32 / ToUint32 as  *)
(* ECMAScript prescribes, and take their shift count modulo 32.            *)
(***************************************************************************)
EXTENDS Integers, Sequences, FiniteSets, TLC

VARIABLES baseIpInput, hostRequirements, resultsHidden, errorHidden,
          subnetList, errorText

vars == <<baseIpInput, hostRequirements, resultsHidden, errorHidden,
          subnetList, errorText>>

(***************************************************************************)
(* JavaScript numbers and the 32-bit operators                             *)
(***************************************************************************)
Half == 2^16

Num(n) == <<n \div Half, n % Half>>

NumAdd(x, y) ==
    LET lo == x[2] + y[2]
    IN  <<x[1] + y[1] + (lo \div Half), lo % Half>>

NumLess(x, y) == x[1] < y[1] \/ (x[1] = y[1] /\ x[2] < y[2])

NumLeq(x, y) == ~NumLess(y, x)

\* Math.pow(2, n) for 0 <= n <= 32
Pow2(n) == IF n >= 16 THEN <<2^(n - 16), 0>> ELSE <<0, 2^n>>

ToUint32(x) == <<x[1] % Half, x[2]>>

ToInt32(x) == <<((x[1] + Half \div 2) % Half) - Half \div 2, x[2]>>

\* x << n
ShiftLeft(x, n) ==
    LET s == n % 32
        u == ToUint32(x)
    IN  IF s >= 16
        THEN ToInt32(<<(u[2] % 2^(32 - s)) * 2^(s - 16), 0>>)
        ELSE ToInt32(<<(u[1] % 2^(16 - s)) * 2^s + ((u[2] * 2^s) \div Half),
                       (u[2] * 2^s) % Half>>)

\* x >>> n
URShift(x, n) ==
    LET s == n % 32
        u == ToUint32(x)
    IN  IF s >= 16
        THEN <<0, u[1] \div 2^(s - 16)>>
        ELSE <<u[1] \div 2^s, (u[1] % 2^s) * 2^(16 - s) + (u[2] \div 2^s)>>

RECURSIVE AndBits(_, _, _)
AndBits(a, b, n) ==
    IF n = 0 THEN 0
    ELSE (a % 2) * (b % 2) + 2 * AndBits(a \div 2, b \div 2, n - 1)

RECURSIVE OrBits(_, _, _)
OrBits(a, b, n) ==
    IF n = 0 THEN 0
    ELSE (IF a % 2 = 1 \/ b % 2 = 1 THEN 1 ELSE 0)
         + 2 * OrBits(a \div 2, b \div 2, n - 1)

\* x & y
BitAnd(x, y) ==
    LET u == ToUint32(x)
        v == ToUint32(y)
    IN  ToInt32(<<AndBits(u[1], v[1], 16), AndBits(u[2], v[2], 16)>>)

\* x | y
BitOr(x, y) ==
    LET u == ToUint32(x)
        v == ToUint32(y)
    IN  ToInt32(<<OrBits(u[1], v[1], 16), OrBits(u[2], v[2], 16)>>)

\* ~x
BitNot(x) ==
    LET u == ToUint32(x)
    IN  ToInt32(<<Half - 1 - u[1], Half - 1 - u[2]>>)

\* the literal 0xffffffff
AllOnes == <<Half - 1, Half - 1>>

\* (x >>> n) & 255: the low eight bits of the shifted value
Octet(x, n) == URShift(x, n)[2] % 256

(***************************************************************************)
(* Address helpers                                                         *)
(***************************************************************************)
\* ~(0xffffffff >>> prefixLength) >>> 0
Mask(prefixLength) == URShift(BitNot(URShift(AllOnes, prefixLength)), 0)

ipToInt(ip) ==
    NumAdd(NumAdd(NumAdd(ShiftLeft(Num(ip[1]), 24), ShiftLeft(Num(ip[2]), 16)),
                  ShiftLeft(Num(ip[3]), 8)),
           Num(ip[4]))

intToIp(int) == <<Octet(int, 24), Octet(int, 16), Octet(int, 8), Octet(int, 0)>>

calculateNetworkAddress(ip, prefixLength) ==
    intToIp(BitAnd(ipToInt(ip), Mask(prefixLength)))

calculateBroadcastAddress(ip, prefixLength) ==
    intToIp(BitOr(ipToInt(ip), BitNot(Mask(prefixLength))))

prefixLengthToSubnetMask(prefixLength) == intToIp(Mask(prefixLength))

\* null is the empty sequence
Null == <<>>

usableRange(ip, prefixLength) ==
    LET network == calculateNetworkAddress(ip, prefixLength)
        broadcast == calculateBroadcastAddress(ip, prefixLength)
        networkInt == ipToInt(network)
        broadcastInt == ipToInt(broadcast)
    IN  IF prefixLength >= 31
        THEN IF prefixLength = 31
             THEN <<network, broadcast>>
             ELSE <<Null, Null>>
        ELSE <<intToIp(NumAdd(networkInt, Num(1))),
               intToIp(NumAdd(broadcastInt, Num(-1)))>>

\* PrefixLoop with the test subnetSize > totalAddresses
RECURSIVE PrefixLoopStrict(_, _)
PrefixLoopStrict(totalAddresses, prefixLength) ==
    IF prefixLength > 0
    THEN IF NumLess(totalAddresses, Pow2(32 - prefixLength))
         THEN prefixLength
         ELSE PrefixLoopStrict(totalAddresses, prefixLength - 1)
    ELSE prefixLength

RECURSIVE PrefixLoop(_, _)
PrefixLoop(totalAddresses, prefixLength) ==
    IF prefixLength > 0
    THEN IF NumLeq(totalAddresses, Pow2(32 - prefixLength))
         THEN prefixLength
         ELSE PrefixLoop(totalAddresses, prefixLength - 1)
    ELSE prefixLength

getRequiredPrefixLength(hosts) == PrefixLoop(NumAdd(hosts, Num(2)), 32)

(***************************************************************************)
(* Form input.  A field is held as the tokens its split yields: the base   *)
(* field as the tokens of the address part (split on '.') and the token of *)
(* the prefix part (split on '/'), the host field as its tokens (split on  *)
(* ',').  A token is a decimal numeral, the empty string, or other text.   *)
(***************************************************************************)
NaN == <<>>

NumTok(n) == [k |-> "num", v |-> Num(n)]

EmptyTok == [k |-> "empty", v |-> Num(0)]

TextTok == [k |-> "text", v |-> Num(0)]

\* the numeral 4294967295
HugeTok == [k |-> "num", v |-> <<Half - 1, Half - 1>>]

\* Number(token): the empty string converts to 0, other text to NaN
Number(tok) ==
    IF tok.k = "text" THEN NaN
    ELSE IF tok.k = "empty" THEN Num(0)
    ELSE tok.v

\* parseInt(token): the empty string and other text convert to NaN
parseInt(tok) == IF tok.k = "num" THEN tok.v ELSE NaN

isNaN(x) == x = NaN

MapNumber(toks) == [i \in 1..Len(toks) |-> Number(toks[i])]

ErrCidr == "Invalid CIDR format"

ErrPrefix == "Invalid prefix length"

ErrIp == "Invalid IP address"

ErrHosts == "Invalid host requirements. Please enter comma-separated numbers."

ErrSpace == "Not enough addresses available for the given requirements."

NoError == ""

\* the result is [error, ip, prefixLength]; error # NoError is the throw
parseCIDR(subnet) ==
    LET ip == subnet.ip
        prefix == subnet.prefix
        prefixLength == parseInt(prefix)
        octets == MapNumber(ip)
        Thrown(msg) == [error |-> msg, ip |-> <<>>, prefixLength |-> 0]
    IN  IF ip = <<>> \/ prefix.k = "empty" THEN Thrown(ErrCidr)
        ELSE IF isNaN(prefixLength) \/ NumLess(prefixLength, Num(0))
                \/ NumLess(Num(32), prefixLength)
        THEN Thrown(ErrPrefix)
        ELSE IF Len(octets) # 4
                \/ \E i \in 1..Len(octets) :
                      isNaN(octets[i]) \/ NumLess(octets[i], Num(0))
                      \/ NumLess(Num(255), octets[i])
        THEN Thrown(ErrIp)
        ELSE [error |-> NoError,
              ip |-> [i \in 1..4 |-> octets[i][2]],
              prefixLength |-> prefixLength[2]]

(***************************************************************************)
(* calculateVLSM                                                           *)
(***************************************************************************)
\* hostRequirements.map(hosts => ({hosts, prefixLength, subnetSize}))
SizeRequirements(hosts) ==
    [i \in 1..Len(hosts) |->
        [hosts |-> hosts[i],
         prefixLength |-> getRequiredPrefixLength(hosts[i]),
         subnetSize |-> Pow2(32 - getRequiredPrefixLength(hosts[i]))]]

RECURSIVE InsertBySize(_, _)
InsertBySize(sorted, x) ==
    IF sorted = <<>> THEN <<x>>
    ELSE IF NumLess(Head(sorted).subnetSize, x.subnetSize)
         THEN <<x>> \o sorted
         ELSE <<Head(sorted)>> \o InsertBySize(Tail(sorted), x)

\* subnets.sort((a, b) => b.subnetSize - a.subnetSize), a stable sort
RECURSIVE SortBySize(_)
SortBySize(subnets) ==
    IF subnets = <<>> THEN <<>>
    ELSE InsertBySize(SortBySize(SubSeq(subnets, 1, Len(subnets) - 1)),
                      subnets[Len(subnets)])

\* subnets.reduce((sum, subnet) => sum + subnet.subnetSize, 0)
RECURSIVE TotalAddressesNeeded(_)
TotalAddressesNeeded(subnets) ==
    IF subnets = <<>> THEN Num(0)
    ELSE NumAdd(TotalAddressesNeeded(SubSeq(subnets, 1, Len(subnets) - 1)),
                subnets[Len(subnets)].subnetSize)

\* InsufficientSpace with the test totalAddressesNeeded >= availableAddresses
InsufficientSpaceGeq(totalAddressesNeeded, availableAddresses) ==
    NumLeq(availableAddresses, totalAddressesNeeded)

\* totalAddressesNeeded > availableAddresses
InsufficientSpace(totalAddressesNeeded, availableAddresses) ==
    NumLess(availableAddresses, totalAddressesNeeded)

\* firstHost && lastHost ? `${firstHost} - ${lastHost}` : 'No usable hosts'
HostRangeText(range) ==
    IF range[1] # Null /\ range[2] # Null
    THEN [text |-> "range", first |-> range[1], last |-> range[2]]
    ELSE [text |-> "No usable hosts", first |-> Null, last |-> Null]

\* one step of subnets.map((subnet, index) => ...) at cursor currentIp
SubnetDetail(subnet, index, currentIp) ==
    LET network == intToIp(currentIp)
        prefixLength == subnet.prefixLength
    IN  [index |-> index + 1,
         hosts |-> subnet.hosts,
         network |-> network,
         prefixLength |-> prefixLength,
         broadcast |-> calculateBroadcastAddress(network, prefixLength),
         hostRange |-> HostRangeText(usableRange(network, prefixLength)),
         subnetMask |-> prefixLengthToSubnetMask(prefixLength)]

\* the map over the sorted subnets, from position index (0-based) on
RECURSIVE Allocate(_, _, _)
Allocate(subnets, index, currentIp) ==
    IF index >= Len(subnets) THEN <<>>
    ELSE <<SubnetDetail(subnets[index + 1], index, currentIp)>>
         \o Allocate(subnets, index + 1,
                     NumAdd(currentIp, subnets[index + 1].subnetSize))

\* ResetDisplay without subnetListDiv.innerHTML = ''
ResetDisplayKeepList(d) ==
    [resultsHidden |-> TRUE, errorHidden |-> TRUE,
     subnetList |-> d.subnetList, errorText |-> ""]

\* the first four statements after the element lookups
ResetDisplay(d) ==
    [resultsHidden |-> TRUE, errorHidden |-> TRUE,
     subnetList |-> <<>>, errorText |-> ""]

\* the try block: [error, details]; error # NoError is the throw
TryBlock(baseIp, hostTokens) ==
    LET parsed == parseCIDR(baseIp)
        hosts == MapNumber(hostTokens)
        subnets == SortBySize(SizeRequirements(hosts))
    IN  IF parsed.error # NoError
        THEN [error |-> parsed.error, details |-> <<>>]
        ELSE IF \E i \in 1..Len(hosts) : isNaN(hosts[i])
        THEN [error |-> ErrHosts, details |-> <<>>]
        ELSE IF InsufficientSpace(TotalAddressesNeeded(subnets),
                                  Pow2(32 - parsed.prefixLength))
        THEN [error |-> ErrSpace, details |-> <<>>]
        ELSE [error |-> NoError,
              details |-> Allocate(subnets, 0, ipToInt(parsed.ip))]

\* the display after calculateVLSM ran on display d with the two fields
calculateVLSM(d, baseIp, hostTokens) ==
    LET r == ResetDisplay(d)
        t == TryBlock(baseIp, hostTokens)
    IN  IF t.error = NoError
        THEN [r EXCEPT !.subnetList = r.subnetList \o t.details,
                       !.resultsHidden = FALSE]
        ELSE [r EXCEPT !.errorText = t.error, !.errorHidden = FALSE]

(***************************************************************************)
(* The page                                                                *)
(***************************************************************************)
MaxRequirements == 2

Base(a, b, c, d, p) ==
    [ip |-> <<NumTok(a), NumTok(b), NumTok(c), NumTok(d)>>, prefix |-> NumTok(p)]

BaseInputs ==
    { Base(192, 168, 1, 0, 30),       \* a network address
      Base(10, 0, 0, 253, 24),        \* host bits set
      Base(255, 255, 255, 254, 24),   \* host bits set, at the top of the space
      Base(0, 0, 0, 0, 0),            \* the whole address space
      Base(10, 0, 0, 1, 32),          \* a single address
      Base(10, 0, 0, 0, 33),
      [ip |-> <<NumTok(10), NumTok(0), NumTok(0)>>, prefix |-> NumTok(24)],
      [ip |-> <<NumTok(10), NumTok(0), NumTok(0), NumTok(0)>>, prefix |-> EmptyTok] }

HostTokens == { TextTok, EmptyTok, NumTok(-1), NumTok(2), HugeTok }

HostInputs ==
    UNION { [1..n -> HostTokens] : n \in 1..MaxRequirements }

Display ==
    [resultsHidden |-> resultsHidden, errorHidden |-> errorHidden,
     subnetList |-> subnetList, errorText |-> errorText]

Init ==
    /\ baseIpInput = [ip |-> <<>>, prefix |-> EmptyTok]
    /\ hostRequirements = <<EmptyTok>>
    /\ resultsHidden = TRUE
    /\ errorHidden = TRUE
    /\ subnetList = <<>>
    /\ errorText = ""

\* the submit listener, run on the two fields as they stand
SubmitForm(baseIp, hostTokens) ==
    /\ baseIpInput' = baseIp
    /\ hostRequirements' = hostTokens
    /\ \E d \in {calculateVLSM(Display, baseIp, hostTokens)} :
          /\ resultsHidden' = d.resultsHidden
          /\ errorHidden' = d.errorHidden
          /\ subnetList' = d.subnetList
          /\ errorText' = d.errorText

\* the user retypes the base network and submits
SubmitBase == \E baseIp \in BaseInputs : SubmitForm(baseIp, hostRequirements)

\* the user retypes the host requirements and submits
SubmitHosts == \E hostTokens \in HostInputs : SubmitForm(baseIpInput, hostTokens)

Next == SubmitBase \/ SubmitHosts

Spec == Init /\ [][Next]_vars

(***************************************************************************)
(* Properties                                                              *)
(***************************************************************************)
\* an address as an unsigned number
Addr(ip) == <<ip[1] * 256 + ip[2], ip[3] * 256 + ip[4]>>

Submitted == ~resultsHidden \/ ~errorHidden

Succeeded == ~resultsHidden

LatestBase == parseCIDR(baseIpInput)

LatestHosts == MapNumber(hostRequirements)

InputsParsed ==
    /\ LatestBase.error = NoError
    /\ \A i \in 1..Len(LatestHosts) : ~isNaN(LatestHosts[i])

Entries == {subnetList[i] : i \in 1..Len(subnetList)}

BlockSize(e) == Pow2(32 - e.prefixLength)

\* C1: in a successful result the reported ranges [network, broadcast] of
\* any two distinct subnets do not intersect.
C1_NonOverlap ==
    Succeeded =>
        \A i, j \in 1..Len(subnetList) :
            i < j =>
                \/ NumLess(Addr(subnetList[i].broadcast), Addr(subnetList[j].network))
                \/ NumLess(Addr(subnetList[j].broadcast), Addr(subnetList[i].network))

\* the first address of the base network's own block
BaseFirst ==
    LET b == Addr(LatestBase.ip)
        bits == 32 - LatestBase.prefixLength
    IN  IF bits >= 16
        THEN <<b[1] - (b[1] % 2^(bits - 16)), 0>>
        ELSE <<b[1], b[2] - (b[2] % 2^bits)>>

BaseLast == NumAdd(NumAdd(BaseFirst, Pow2(32 - LatestBase.prefixLength)), Num(-1))

\* C2: in a successful result every block [network, network + size - 1]
\* lies within the address range of the base network, whatever address the
\* base field gave, and does not run past 2^32 - 1.
C2_Containment ==
    Succeeded =>
        \A e \in Entries :
            /\ NumLeq(BaseFirst, Addr(e.network))
            /\ NumLeq(NumAdd(NumAdd(Addr(e.network), BlockSize(e)), Num(-1)), BaseLast)
            /\ NumLess(NumAdd(NumAdd(Addr(e.network), BlockSize(e)), Num(-1)), Pow2(32))

RECURSIVE SumBlockSizes(_)
SumBlockSizes(hosts) ==
    IF hosts = <<>> THEN Num(0)
    ELSE NumAdd(Pow2(32 - getRequiredPrefixLength(Head(hosts))),
                SumBlockSizes(Tail(hosts)))

Available == Pow2(32 - LatestBase.prefixLength)

\* C3: on parsed input the submission ends in the not-enough-addresses error
\* exactly when the sum of the block sizes is greater than 2^(32 - P); with
\* the sum at most 2^(32 - P), equality included, it succeeds.  Unparsed
\* input never ends in that error.
C3_Capacity ==
    Submitted =>
        IF InputsParsed
        THEN /\ (~errorHidden /\ errorText = ErrSpace)
                  <=> NumLess(Available, SumBlockSizes(LatestHosts))
             /\ NumLeq(SumBlockSizes(LatestHosts), Available) => Succeeded
        ELSE errorText # ErrSpace

C3_Witness ==
    /\ Succeeded
    /\ Len(subnetList) = 2
    /\ SumBlockSizes(LatestHosts) = Available

\* C4: the i-th emitted entry is labelled i and carries the host count of
\* the i-th requirement of the input.
C4_InputOrder ==
    Succeeded =>
        /\ Len(subnetList) = Len(LatestHosts)
        /\ \A i \in 1..Len(subnetList) :
              /\ subnetList[i].index = i
              /\ subnetList[i].hosts = LatestHosts[i]

\* the mask with p leading one-bits, as octets
LeadingOnes(p) ==
    [i \in 1..4 |->
        IF p >= 8 * i THEN 255
        ELSE IF p <= 8 * (i - 1) THEN 0
        ELSE 256 - 2^(8 * i - p)]

\* C5: the subnet mask shown for prefix length p has exactly p leading
\* one-bits and 32 - p trailing zero-bits.
C5_Mask ==
    \A e \in Entries : e.subnetMask = LeadingOnes(e.prefixLength)

\* C6: for a host count h >= 0 the prefix length p satisfies
\* 2^(32-p) >= h + 2 and, when p < 32, 2^(32-(p+1)) < h + 2.
C6_Minimal ==
    \A e \in Entries :
        NumLeq(Num(0), e.hosts) =>
            /\ NumLeq(NumAdd(e.hosts, Num(2)), Pow2(32 - e.prefixLength))
            /\ e.prefixLength < 32 =>
                  NumLess(Pow2(32 - (e.prefixLength + 1)), NumAdd(e.hosts, Num(2)))

\* C7 as stated: a requirement of 0 hosts gets prefix length 30, and no
\* host count h >= 0 gets a prefix length above 30.
C7_ZeroIs30 ==
    \A e \in Entries :
        /\ e.hosts = Num(0) => e.prefixLength = 30
        /\ NumLeq(Num(0), e.hosts) => e.prefixLength <= 30

\* C7 amended: a requirement of 0 hosts gets prefix length 31 (block size
\* 2), and no host count h >= 0 gets a prefix length above 31.
C7_ZeroIs31 ==
    \A e \in Entries :
        /\ e.hosts = Num(0) => e.prefixLength = 31 /\ BlockSize(e) = Num(2)
        /\ NumLeq(Num(0), e.hosts) => e.prefixLength <= 31

C7_Witness ==
    /\ Succeeded
    /\ \E e \in Entries : e.hosts = Num(0) /\ e.prefixLength = 31

\* C8: when some requirement h has h + 2 > 2^32 the submission ends in an
\* error and shows no result, for every base network.
C8_TooLargeFails ==
    (/\ Submitted
     /\ InputsParsed
     /\ \E i \in 1..Len(LatestHosts) :
           NumLess(Pow2(32), NumAdd(LatestHosts[i], Num(2))))
        => resultsHidden /\ ~errorHidden /\ subnetList = <<>>

\* C9: for an entry with network N, broadcast C and prefix length p the
\* host range is (N + 1, C - 1) when p < 31, (N, C) when p = 31 and absent
\* when p = 32; a present range satisfies N <= first <= last <= C.
C9_UsableRange ==
    \A e \in Entries :
        LET N == Addr(e.network)
            C == Addr(e.broadcast)
            r == e.hostRange
        IN  /\ e.prefixLength < 31 =>
                /\ r.text = "range"
                /\ Addr(r.first) = NumAdd(N, Num(1))
                /\ Addr(r.last) = NumAdd(C, Num(-1))
            /\ e.prefixLength = 31 =>
                /\ r.text = "range"
                /\ r.first = e.network
                /\ r.last = e.broadcast
            /\ e.prefixLength = 32 =>
                r.text = "No usable hosts" /\ r.first = Null /\ r.last = Null
            /\ r.text = "range" =>
                /\ NumLeq(N, Addr(r.first))
                /\ NumLeq(Addr(r.first), Addr(r.last))
                /\ NumLeq(Addr(r.last), C)

Count(seq, v) == Cardinality({i \in 1..Len(seq) : seq[i] = v})

ShownHosts == [i \in 1..Len(subnetList) |-> subnetList[i].hosts]

\* C10: after any sequence of submissions the display shows the outcome of
\* the latest one alone: either the results are visible with one entry per
\* requirement of the latest input and the error hidden and empty, or the
\* error is visible with its text and the results hidden and empty.
C10_LatestOnly ==
    Submitted =>
        \/ /\ ~resultsHidden
           /\ errorHidden
           /\ errorText = ""
           /\ InputsParsed
           /\ Len(subnetList) = Len(LatestHosts)
           /\ \A i \in 1..Len(subnetList) :
                 /\ subnetList[i].index = i
                 /\ Count(ShownHosts, subnetList[i].hosts)
                      = Count(LatestHosts, subnetList[i].hosts)
        \/ /\ ~errorHidden
           /\ resultsHidden
           /\ errorText \in {ErrCidr, ErrPrefix, ErrIp, ErrHosts, ErrSpace}
           /\ subnetList = <<>>

C10_Witness ==
    /\ ~errorHidden
    /\ resultsHidden
    /\ subnetList = <<>>
    /\ errorText = ErrSpace
    /\ Len(hostRequirements) = 2

(***************************************************************************)
(* What holds of the code where C1, C2, C5, C6 and C9 fail                 *)
(***************************************************************************)
NonNegativeHosts ==
    \A i \in 1..Len(LatestHosts) : NumLeq(Num(0), LatestHosts[i])

AlignedBase == BaseFirst = Addr(LatestBase.ip)

\* with every host count >= 0 the reported ranges do not intersect
NonOverlapNonNegative == (Succeeded /\ NonNegativeHosts) => C1_NonOverlap

\* with a base address that is its own network address the blocks stay
\* within the base network
ContainmentAligned == (Succeeded /\ AlignedBase) => C2_Containment

\* the mask is right for every prefix length below 32
MaskBelow32 ==
    \A e \in Entries :
        e.prefixLength < 32 => e.subnetMask = LeadingOnes(e.prefixLength)

\* the prefix length is minimal when h + 2 <= 2^32
MinimalInRange ==
    (/\ Succeeded
     /\ \A i \in 1..Len(LatestHosts) :
           NumLeq(NumAdd(LatestHosts[i], Num(2)), Pow2(32))) => C6_Minimal

\* with an aligned base the usable range is as C9 states
UsableRangeAligned == (Succeeded /\ AlignedBase) => C9_UsableRange

====
